---- MODULE Spec2Model ----
(***************************************************************************)
(* Model of src/wan2_6_i2v/wan_video.py: one call of run(prompt,           *)
(* image_input), i.e. generate_video -> wait_for_completion (a loop around  *)
(* check_status and time.sleep) -> download_video, against a remote service *)
(* whose answers are the environment's choice.                              *)
(*                                                                          *)
(* Python dicts are functions from string keys; a missing key is a key      *)
(* outside DOMAIN.  Python's None is the string None below.  An HTTP        *)
(* exchange is a record [kind, body]: kind "json" carries the decoded       *)
(* response, kind "raise" is a requests exception (transport failure).      *)
(***************************************************************************)
EXTENDS Integers, Sequences, FiniteSets, TLC

\* ------------------------------------------------------------- bounds
\* Longest scripted sequence of status exchanges.
MaxLen == 3

\* ------------------------------------------------- python helper values
None == "<None>"
EmptyDict == [k \in {} |-> None]

\* a dict-valued local that has not been assigned yet
Unbound == [unbound |-> TRUE]

\* dict.get(key, default)
Get(d, k, default) == IF k \in DOMAIN d THEN d[k] ELSE default

\* truthiness of an optional string: None and "" are falsy
Truthy(s) == s # None /\ s # ""

\* ------------------------------------------------- module configuration
API_BASE_URL == "https://dashscope-intl.aliyuncs.com/api/v1"
WAN_MODEL_I2V == "wan2.6-i2v"
WAN_MODEL_T2V == "wan2.6-t2v"
WAN_RESOLUTION == "720P"
WAN_SIZE == "1280*720"
WAN_DURATION == 10
WAN_PROMPT_EXTEND == TRUE
WAN_SHOT_TYPE == "single"
WAN_OUTPUT_DIR == "./output"

\* values os.environ.get("WAN_API_KEY") can yield at import time
ApiKeys == {None, "", "sk-key"}

\* ------------------------------------------------------ inputs of run
Prompts == {"", "A cat walking slowly"}
LocalFiles == {"./image.png"}
ImageInputs == {None, "", "https://example.com/img.png"} \cup LocalFiles

\* ------------------------------------------- what the remote can answer
TransportError == [kind |-> "raise", body |-> EmptyDict]
Json(d) == [kind |-> "json", body |-> d]

TaskIds == {"t1", "t2"}

\* answers to the submission POST
SubmitExchanges ==
    {TransportError,
     Json([code |-> "InvalidParameter", message |-> "rejected"]),
     Json([output |-> [task_status |-> "FAILED"]])}
    \cup {Json([output |-> [task_id |-> t, task_status |-> "PENDING"]]) : t \in TaskIds}

\* answers to the status GET that keep the job going
NonTerminalBodies ==
    {[output |-> [task_status |-> "PENDING"]],
     [output |-> [task_status |-> "RUNNING"]]}

\* answers to the status GET that end the job, recognised or not
TerminalBodies ==
    {[output |-> [task_status |-> "SUCCEEDED", video_url |-> "https://cdn/v1.mp4"]],
     [output |-> [task_status |-> "SUCCEEDED", video_url |-> ""]],
     [output |-> [task_status |-> "SUCCEEDED"]],
     [output |-> [task_status |-> "FAILED", message |-> "quota exceeded"]],
     [output |-> [task_status |-> "FAILED"]],
     [output |-> [task_status |-> "FAILED", video_url |-> "https://cdn/v0.mp4"]],
     [output |-> [task_status |-> "CANCELED"]],
     [output |-> EmptyDict],
     [code |-> "Throttling", message |-> "slow down"]}

StatusExchanges ==
    {TransportError} \cup {Json(b) : b \in NonTerminalBodies \cup TerminalBodies}

\* exchanges after which the specification expects one more tick
ContinuingExchanges == {TransportError} \cup {Json(b) : b \in NonTerminalBodies}

\* exchanges that occur before the last one of a script: the continuing
\* ones, one terminal answer and the two malformed ones, so that scripts go
\* on past an answer that ends the loop
MidScriptExchanges ==
    ContinuingExchanges
    \cup {Json([output |-> [task_status |-> "FAILED", message |-> "quota exceeded"]]),
          Json([output |-> EmptyDict]),
          Json([code |-> "Throttling", message |-> "slow down"])}

\* scripted status sequences: any exchange last, a mid-script one before it
Scripts ==
    UNION {{s \in [1..n -> StatusExchanges] :
              \A i \in 1..(n - 1) : s[i] \in MidScriptExchanges} : n \in 1..MaxLen}

\* answers to the artifact GET: a chunk is a sequence of bytes, and
\* iter_content yields the payload as a sequence of chunks
ChunkSeqs == {<<>>, <<<<"b1">>>>, <<<<"b1", "b2">>, <<"b3">>>>}

\* bytes of a file already at the destination path before the run
OldContent == <<"old">>
DownloadExchanges ==
    {[kind |-> "raise", ok |-> FALSE, chunks |-> <<>>],
     [kind |-> "http", ok |-> FALSE, chunks |-> <<>>]}
    \cup {[kind |-> "http", ok |-> TRUE, chunks |-> c] : c \in ChunkSeqs}

\* ---------------------------------------------------------------- state
VARIABLES
    API_KEY,        \* module global, read once at import
    prompt,         \* run's argument
    image_input,    \* run's argument
    script,         \* the status exchanges the remote will give, in order
    outdir,         \* whether WAN_OUTPUT_DIR exists
    pc,             \* position in run
    is_i2v,         \* run's local
    payload,        \* json body of the submission POST, once sent
    result,         \* run's local: submission response
    task_id,        \* run's local
    status_result,  \* wait_for_completion's local `result`
    final_result,   \* run's local
    video_url,      \* run's local
    requests,       \* network requests made so far, in order
    sleeps,         \* number of time.sleep(interval) calls
    response,       \* download_video's local: the artifact GET's response
    stream,         \* chunks of response.iter_content not yet read
    fileExists,     \* whether output_path exists
    fileContent,    \* chunks written to output_path
    outcome         \* how run ended: [kind, value]

vars == <<API_KEY, prompt, image_input, script, outdir, pc, is_i2v, payload,
          result, task_id, status_result, final_result, video_url, requests,
          sleeps, response, stream, fileExists, fileContent, outcome>>

env == <<API_KEY, prompt, image_input, script>>

Return(v) == [kind |-> "return", value |-> v]
Raise(e) == [kind |-> "raise", value |-> e]
Running == [kind |-> "running", value |-> None]

SubmitUrl == "/services/aigc/video-generation/video-synthesis"

Init ==
    /\ API_KEY \in ApiKeys
    /\ prompt \in Prompts
    /\ image_input \in ImageInputs
    /\ script \in Scripts
    /\ outdir \in BOOLEAN
    /\ pc = "run"
    /\ is_i2v = FALSE
    /\ payload = Unbound
    /\ result = Unbound
    /\ task_id = None
    /\ status_result = Unbound
    /\ final_result = Unbound
    /\ video_url = None
    /\ requests = <<>>
    /\ sleeps = 0
    /\ response = Unbound
    /\ stream = <<>>
    /\ fileExists \in (IF outdir THEN BOOLEAN ELSE {FALSE})
    /\ fileContent = (IF fileExists THEN OldContent ELSE <<>>)
    /\ outcome = Running

\* ------------------------------------------------------- pure helpers
\* mutation: only an unset variable counts as missing, an empty one passes
KeyMissing_NoneOnly(key) == key = None

\* `not API_KEY`
KeyMissing(key) == key = None \/ key = ""

\* generate_video: `if image_input:` selects the I2V branch
PayloadIsI2V(img) == Truthy(img)

\* run: `is_i2v = image_input is not None`
RunIsI2V(img) == img # None

\* encode_image_to_base64: a data URI built from the file's bytes
encode_image_to_base64(path) == "data:image/png;base64,AAAA"

\* generate_video: the img_url of the I2V payload
ImgUrl(img) == IF img \in LocalFiles THEN encode_image_to_base64(img) ELSE img

\* generate_video: the json body of the POST
BuildPayload(p, img) ==
    IF PayloadIsI2V(img)
    THEN [model |-> WAN_MODEL_I2V,
          input |-> [prompt |-> p, img_url |-> ImgUrl(img)],
          parameters |-> [resolution |-> WAN_RESOLUTION,
                          prompt_extend |-> WAN_PROMPT_EXTEND,
                          duration |-> WAN_DURATION,
                          shot_type |-> WAN_SHOT_TYPE]]
    ELSE [model |-> WAN_MODEL_T2V,
          input |-> [prompt |-> p],
          parameters |-> [size |-> WAN_SIZE,
                          prompt_extend |-> WAN_PROMPT_EXTEND,
                          duration |-> WAN_DURATION,
                          shot_type |-> WAN_SHOT_TYPE]]

\* mutation: only the presence of output is checked
HasTaskId_OutputOnly(r) == "output" \in DOMAIN r

\* run: `"output" in result and "task_id" in result.get("output", {})`
HasTaskId(r) == "output" \in DOMAIN r /\ "task_id" \in DOMAIN Get(r, "output", EmptyDict)

\* mutation: a missing task_status defaults to PENDING
StatusOf_DefaultPending(r) == Get(Get(r, "output", EmptyDict), "task_status", "PENDING")

\* wait_for_completion: status = result.get("output", {}).get("task_status", "UNKNOWN")
StatusOf(r) == Get(Get(r, "output", EmptyDict), "task_status", "UNKNOWN")

\* mutation: RUNNING is missing from the list of statuses that keep polling
Returns_RunningUnlisted(status) ==
    \/ status = "SUCCEEDED"
    \/ status = "FAILED"
    \/ status \notin {"PENDING"}

\* mutation: FAILED is not handled and is listed as a status that keeps polling
Returns_FailedKeepsPolling(status) ==
    \/ status = "SUCCEEDED"
    \/ status \notin {"PENDING", "RUNNING", "FAILED"}

\* wait_for_completion: the if/elif chain; TRUE when one of its branches returns
Returns(status) ==
    \/ status = "SUCCEEDED"
    \/ status = "FAILED"
    \/ status \notin {"PENDING", "RUNNING"}

\* mutation: the video_url is not tested before the download
ShouldDownload_NoUrlCheck(r) ==
    Get(Get(r, "output", EmptyDict), "task_status", None) = "SUCCEEDED"

\* mutation: the status is not tested before the download
ShouldDownload_NoStatusCheck(r) ==
    Truthy(Get(Get(r, "output", EmptyDict), "video_url", None))

\* run: output.get("task_status") == "SUCCEEDED" and a truthy output.get("video_url")
ShouldDownload(r) ==
    /\ Get(Get(r, "output", EmptyDict), "task_status", None) = "SUCCEEDED"
    /\ Truthy(Get(Get(r, "output", EmptyDict), "video_url", None))

\* mutation: os.makedirs without exist_ok
ExistOk_Default == FALSE

\* os.makedirs(WAN_OUTPUT_DIR, exist_ok=True): the exist_ok argument
ExistOk == TRUE

\* os.makedirs raises FileExistsError on an existing directory unless exist_ok
MakedirsRaises(exists) == exists /\ ~ExistOk

\* mutation: the transport status is never checked
RaisesForStatus_Never(ex) == FALSE

\* response.raise_for_status(): raises on a non-success transport status
RaisesForStatus(ex) == ~ex.ok

\* download_video: the generated destination path
OutputPath == "./output/wan_video_<timestamp>.mp4"

\* number of requests of kind op made so far
RECURSIVE CountOp(_, _)
CountOp(reqs, op) ==
    IF reqs = <<>> THEN 0
    ELSE (IF Head(reqs).op = op THEN 1 ELSE 0) + CountOp(Tail(reqs), op)

StatusFetches == CountOp(requests, "GET_STATUS")

Request(op, target) == [op |-> op, target |-> target]

\* ------------------------------------------------------------ actions
\* run, lines 212-225: derive the mode and print the banner
run_start ==
    /\ pc = "run"
    /\ is_i2v' = RunIsI2V(image_input)
    /\ pc' = "generate_video"
    /\ UNCHANGED <<env, outdir, payload, result, task_id, status_result,
                   final_result, video_url, requests, sleeps, response, stream,
                   fileExists, fileContent, outcome>>

\* generate_video: credential check, payload, POST, response.json()
generate_video ==
    /\ pc = "generate_video"
    /\ IF KeyMissing(API_KEY)
       THEN /\ outcome' = Raise("ValueError")
            /\ pc' = "done"
            /\ UNCHANGED <<payload, requests, result>>
       ELSE \E ex \in SubmitExchanges :
              /\ payload' = BuildPayload(prompt, image_input)
              /\ requests' = Append(requests, Request("POST", SubmitUrl))
              /\ IF ex.kind = "raise"
                 THEN /\ outcome' = Raise("ConnectionError")
                      /\ pc' = "done"
                      /\ UNCHANGED result
                 ELSE /\ result' = ex.body
                      /\ pc' = "run_task_id"
                      /\ UNCHANGED outcome
    /\ UNCHANGED <<env, outdir, is_i2v, task_id, status_result, final_result,
                   video_url, sleeps, response, stream, fileExists, fileContent>>

\* run, lines 231-235: reject a response without output.task_id
run_task_id ==
    /\ pc = "run_task_id"
    /\ IF HasTaskId(result)
       THEN IF "output" \in DOMAIN result /\ "task_id" \in DOMAIN result["output"]
            THEN /\ task_id' = result["output"]["task_id"]
                 /\ pc' = "check_status"
                 /\ UNCHANGED outcome
            ELSE /\ outcome' = Raise("KeyError")
                 /\ pc' = "done"
                 /\ UNCHANGED task_id
       ELSE /\ outcome' = Return(None)
            /\ pc' = "done"
            /\ UNCHANGED task_id
    /\ UNCHANGED <<env, outdir, is_i2v, payload, result, status_result,
                   final_result, video_url, requests, sleeps, response, stream,
                   fileExists, fileContent>>

\* mutation: the status url is built from a fixed task id, not the argument
check_status_FixedTask ==
    /\ pc = "check_status"
    /\ StatusFetches < Len(script)
    /\ IF KeyMissing(API_KEY)
       THEN /\ outcome' = Raise("ValueError")
            /\ pc' = "done"
            /\ UNCHANGED <<requests, status_result>>
       ELSE LET ex == script[StatusFetches + 1] IN
            /\ requests' = Append(requests, Request("GET_STATUS", "t1"))
            /\ IF ex.kind = "raise"
               THEN /\ outcome' = Raise("ConnectionError")
                    /\ pc' = "done"
                    /\ UNCHANGED status_result
               ELSE /\ status_result' = ex.body
                    /\ pc' = "wait_for_completion"
                    /\ UNCHANGED outcome
    /\ UNCHANGED <<env, outdir, is_i2v, payload, result, task_id, final_result,
                   video_url, sleeps, response, stream, fileExists, fileContent>>

\* check_status, called at the top of wait_for_completion's loop: the next
\* scripted exchange is consumed; an exception leaves wait_for_completion
\* and run, neither of which catches it
check_status ==
    /\ pc = "check_status"
    /\ StatusFetches < Len(script)
    /\ IF KeyMissing(API_KEY)
       THEN /\ outcome' = Raise("ValueError")
            /\ pc' = "done"
            /\ UNCHANGED <<requests, status_result>>
       ELSE LET ex == script[StatusFetches + 1] IN
            /\ requests' = Append(requests, Request("GET_STATUS", task_id))
            /\ IF ex.kind = "raise"
               THEN /\ outcome' = Raise("ConnectionError")
                    /\ pc' = "done"
                    /\ UNCHANGED status_result
               ELSE /\ status_result' = ex.body
                    /\ pc' = "wait_for_completion"
                    /\ UNCHANGED outcome
    /\ UNCHANGED <<env, outdir, is_i2v, payload, result, task_id, final_result,
                   video_url, sleeps, response, stream, fileExists, fileContent>>

\* mutation: the sleep comes before the if/elif chain, so on every tick
wait_for_completion_SleepsFirst ==
    /\ pc = "wait_for_completion"
    /\ sleeps' = sleeps + 1
    /\ IF Returns(StatusOf(status_result))
       THEN /\ final_result' = status_result
            /\ pc' = "run_download"
       ELSE /\ pc' = "check_status"
            /\ UNCHANGED final_result
    /\ UNCHANGED <<env, outdir, is_i2v, payload, result, task_id, status_result,
                   video_url, requests, response, stream, fileExists,
                   fileContent, outcome>>

\* wait_for_completion, lines 150-165: classify the fetched status and
\* either return the whole response to run or go on to the sleep
wait_for_completion ==
    /\ pc = "wait_for_completion"
    /\ IF Returns(StatusOf(status_result))
       THEN /\ final_result' = status_result
            /\ pc' = "run_download"
       ELSE /\ pc' = "sleep"
            /\ UNCHANGED final_result
    /\ UNCHANGED <<env, outdir, is_i2v, payload, result, task_id, status_result,
                   video_url, requests, sleeps, response, stream, fileExists,
                   fileContent, outcome>>

\* mutation: the loop gives up after its second sleep
sleep_MaxTicks ==
    /\ pc = "sleep"
    /\ sleeps' = sleeps + 1
    /\ IF sleeps + 1 >= 2
       THEN /\ outcome' = Raise("TimeoutError")
            /\ pc' = "done"
       ELSE /\ pc' = "check_status"
            /\ UNCHANGED outcome
    /\ UNCHANGED <<env, outdir, is_i2v, payload, result, task_id, status_result,
                   final_result, video_url, requests, response, stream, fileExists,
                   fileContent>>

\* mutation: after the sleep the loop starts over from the submission
sleep_Resubmits ==
    /\ pc = "sleep"
    /\ sleeps' = sleeps + 1
    /\ pc' = "generate_video"
    /\ UNCHANGED <<env, outdir, is_i2v, payload, result, task_id, status_result,
                   final_result, video_url, requests, response, stream, fileExists,
                   fileContent, outcome>>

\* wait_for_completion, line 167: time.sleep(interval), then the next tick
sleep ==
    /\ pc = "sleep"
    /\ sleeps' = sleeps + 1
    /\ pc' = "check_status"
    /\ UNCHANGED <<env, outdir, is_i2v, payload, result, task_id, status_result,
                   final_result, video_url, requests, response, stream, fileExists,
                   fileContent, outcome>>

\* run, lines 241-247: download only a SUCCEEDED job that has a video_url
run_download ==
    /\ pc = "run_download"
    /\ IF ShouldDownload(final_result)
       THEN /\ video_url' = Get(Get(final_result, "output", EmptyDict), "video_url", None)
            /\ pc' = "download_video"
            /\ UNCHANGED outcome
       ELSE /\ outcome' = Return(None)
            /\ pc' = "done"
            /\ UNCHANGED video_url
    /\ UNCHANGED <<env, outdir, is_i2v, payload, result, task_id, status_result,
                   final_result, requests, sleeps, response, stream, fileExists,
                   fileContent>>

\* download_video, lines 182-191: makedirs, GET, raise_for_status
download_video ==
    /\ pc = "download_video"
    /\ IF MakedirsRaises(outdir)
       THEN /\ outcome' = Raise("FileExistsError")
            /\ pc' = "done"
            /\ UNCHANGED <<outdir, requests, response, stream>>
       ELSE /\ outdir' = TRUE
            /\ requests' = Append(requests, Request("GET_DOWNLOAD", video_url))
            /\ \E ex \in DownloadExchanges :
                 IF ex.kind = "raise"
                 THEN /\ outcome' = Raise("ConnectionError")
                      /\ pc' = "done"
                      /\ UNCHANGED <<response, stream>>
                 ELSE IF RaisesForStatus(ex)
                 THEN /\ response' = ex
                      /\ outcome' = Raise("HTTPError")
                      /\ pc' = "done"
                      /\ UNCHANGED stream
                 ELSE /\ response' = ex
                      /\ stream' = ex.chunks
                      /\ pc' = "download_open"
                      /\ UNCHANGED outcome
    /\ UNCHANGED <<env, is_i2v, payload, result, task_id, status_result,
                   final_result, video_url, sleeps, fileExists, fileContent>>

\* mutation: the file is opened for appending and keeps what it held
download_open_Appends ==
    /\ pc = "download_open"
    /\ fileExists' = TRUE
    /\ pc' = "download_write"
    /\ UNCHANGED <<env, outdir, is_i2v, payload, result, task_id, status_result,
                   final_result, video_url, requests, sleeps, response, stream,
                   fileContent, outcome>>

\* download_video, line 193: open(output_path, "wb") creates or truncates
download_open ==
    /\ pc = "download_open"
    /\ fileExists' = TRUE
    /\ fileContent' = <<>>
    /\ pc' = "download_write"
    /\ UNCHANGED <<env, outdir, is_i2v, payload, result, task_id, status_result,
                   final_result, video_url, requests, sleeps, response, stream,
                   outcome>>

\* download_video, lines 194-195: write the next streamed chunk
download_write ==
    /\ pc = "download_write"
    /\ stream # <<>>
    /\ fileContent' = fileContent \o Head(stream)
    /\ stream' = Tail(stream)
    /\ UNCHANGED <<env, outdir, pc, is_i2v, payload, result, task_id,
                   status_result, final_result, video_url, requests, sleeps,
                   response, fileExists, outcome>>

\* download_video, lines 197-198, and run, line 245: return output_path
download_return ==
    /\ pc = "download_write"
    /\ stream = <<>>
    /\ outcome' = Return(OutputPath)
    /\ pc' = "done"
    /\ UNCHANGED <<env, outdir, is_i2v, payload, result, task_id, status_result,
                   final_result, video_url, requests, sleeps, response, stream,
                   fileExists, fileContent>>

Next ==
    \/ run_start
    \/ generate_video
    \/ run_task_id
    \/ check_status
    \/ wait_for_completion
    \/ sleep
    \/ run_download
    \/ download_video
    \/ download_open
    \/ download_write
    \/ download_return

Spec == Init /\ [][Next]_vars

\* run is one sequential thread: a step that can be taken is taken
FairSpec == Spec /\ WF_vars(Next)

TypeOK ==
    /\ pc \in {"run", "generate_video", "run_task_id", "check_status",
               "wait_for_completion", "sleep", "run_download", "download_video",
               "download_open", "download_write", "done"}
    /\ outcome.kind \in {"running", "return", "raise"}
    /\ (pc = "done") <=> (outcome.kind # "running")
    /\ sleeps \in 0..MaxLen
    /\ StatusFetches <= Len(script)

\* ----------------------------------------------- vocabulary of the claims
\* the polling loop has returned its result to run
WaitReturned == final_result # Unbound

Downloads == CountOp(requests, "GET_DOWNLOAD")
Posts == CountOp(requests, "POST")

\* the bytes of a streamed payload: its chunks, concatenated in order
RECURSIVE Concat(_)
Concat(chunks) == IF chunks = <<>> THEN <<>> ELSE Head(chunks) \o Concat(Tail(chunks))

\* the destination file is as it was before the run: absent, or present with
\* the bytes it held
FileUntouched == fileContent = (IF fileExists THEN OldContent ELSE <<>>)

\* the specification's JobStatus.state of a decoded status response
SpecState(r) ==
    LET st == StatusOf(r) IN
    CASE st = "PENDING" -> "Pending"
      [] st = "RUNNING" -> "Running"
      [] st = "SUCCEEDED" -> "Succeeded"
      [] st = "FAILED" -> "Failed"
      [] OTHER -> "Unrecognized"

\* a scripted exchange that is a decoded response in a non-terminal state
NonTerminalEx(ex) == ex.kind = "json" /\ SpecState(ex.body) \in {"Pending", "Running"}

\* a scripted exchange that is a decoded response in a terminal state
TerminalEx(ex) ==
    ex.kind = "json" /\ SpecState(ex.body) \in {"Succeeded", "Failed", "Unrecognized"}

\* the script's first terminal response is at position k, after k-1
\* PENDING/RUNNING responses
FirstTerminalAt(k) ==
    /\ k \in 1..Len(script)
    /\ TerminalEx(script[k])
    /\ \A i \in 1..(k - 1) : NonTerminalEx(script[i])

\* ------------------------------------------------------------------ C1
\* C1: wait_for_completion returns only on a tick whose fetched status is
\* terminal.  Once it has returned, the last exchange fetched is a decoded
\* response whose state is Succeeded, Failed or Unrecognized (never Pending or
\* Running) and that response is the one returned; and while the loop is
\* about to sleep or to fetch again, no response fetched so far was terminal,
\* so a terminal response always makes the loop return.
C1_ReturnsOnlyOnTerminal ==
    /\ WaitReturned =>
         /\ StatusFetches >= 1
         /\ TerminalEx(script[StatusFetches])
         /\ status_result = script[StatusFetches].body
         /\ StatusOf(status_result) \notin {"PENDING", "RUNNING"}
         /\ SpecState(final_result) \in {"Succeeded", "Failed", "Unrecognized"}
    /\ pc \in {"check_status", "sleep"} =>
         \A i \in 1..StatusFetches : NonTerminalEx(script[i])

\* C1 witness: the loop has returned an Unrecognized response on its third tick
C1_Witness ==
    /\ pc = "run_download"
    /\ StatusFetches = 3
    /\ SpecState(final_result) = "Unrecognized"
    /\ StatusOf(final_result) = "CANCELED"

\* ------------------------------------------------------------------ C2
\* C2: when the script's first terminal response is at position k, the loop
\* never fetches more than k times, and once it has returned it has fetched
\* exactly k times and its result is the k-th response, whole: the
\* video_url of a Succeeded one, the message of a Failed one.
C2_KthResponseWholesale ==
    \A k \in 1..Len(script) :
        FirstTerminalAt(k) =>
            /\ StatusFetches <= k
            /\ (pc = "done" /\ task_id # None) => StatusFetches = k
            /\ WaitReturned =>
                 /\ StatusFetches = k
                 /\ final_result = script[k].body
                 /\ Get(Get(final_result, "output", EmptyDict), "video_url", None)
                      = Get(Get(script[k].body, "output", EmptyDict), "video_url", None)
                 /\ Get(Get(final_result, "output", EmptyDict), "message", None)
                      = Get(Get(script[k].body, "output", EmptyDict), "message", None)

\* C2 witness: [Pending, Running, Succeeded(location)] returned after 3 fetches
C2_Witness ==
    /\ pc = "run_download"
    /\ Len(script) = 3
    /\ SpecState(script[1].body) = "Pending"
    /\ SpecState(script[2].body) = "Running"
    /\ StatusFetches = 3
    /\ SpecState(final_result) = "Succeeded"
    /\ Get(Get(final_result, "output", EmptyDict), "video_url", None)
         = "https://cdn/v1.mp4"

\* ------------------------------------------------------------------ C3
\* C3: download_video is invoked, and a download request made, only when the
\* final polled status is SUCCEEDED and that response has a non-empty
\* video_url; otherwise the run ends without any download request.
FinalHasArtifact ==
    /\ WaitReturned
    /\ "output" \in DOMAIN final_result
    /\ "task_status" \in DOMAIN final_result["output"]
    /\ final_result["output"]["task_status"] = "SUCCEEDED"
    /\ "video_url" \in DOMAIN final_result["output"]
    /\ final_result["output"]["video_url"] \notin {"", None}

C3_DownloadOnlyOnSuccess ==
    /\ (Downloads > 0 \/ pc \in {"download_video", "download_open", "download_write"})
         => FinalHasArtifact
    /\ ~FinalHasArtifact => (Downloads = 0 /\ FileUntouched)
    /\ (WaitReturned /\ ~FinalHasArtifact /\ pc = "done") => outcome = Return(None)

\* C3 witness: a download request was made after a SUCCEEDED response with a url
C3_Witness ==
    /\ Downloads = 1
    /\ FinalHasArtifact
    /\ requests[Len(requests)] = Request("GET_DOWNLOAD", "https://cdn/v1.mp4")

\* ------------------------------------------------------------------ C4
\* the submission response has no output field, or an output without task_id
LacksTaskId(r) ==
    \/ "output" \notin DOMAIN r
    \/ "task_id" \notin DOMAIN r["output"]

\* C4: when the submission response lacks output.task_id, run returns a
\* failure (None) and the run makes no status poll and no download.
C4_NoTaskIdNoPolling ==
    (result # Unbound /\ LacksTaskId(result)) =>
        /\ StatusFetches = 0
        /\ Downloads = 0
        /\ ~WaitReturned
        /\ pc \in {"run_task_id", "done"}
        /\ pc = "done" => outcome = Return(None)

\* C4 witness: run has returned None on a response whose output has no task_id
C4_Witness ==
    /\ pc = "done"
    /\ result # Unbound
    /\ "output" \in DOMAIN result
    /\ "task_id" \notin DOMAIN result["output"]
    /\ outcome = Return(None)
    /\ Posts = 1

\* ------------------------------------------------------------------ C5
\* C5: a transport error raised by one status fetch does not end the polling
\* loop: if the k-th status exchange was a transport error, then the run has
\* not ended on it, and where it has ended, a later fetch was made.
C5_TransportErrorRetried ==
    \A k \in 1..StatusFetches :
        script[k].kind = "raise" => (pc # "done" \/ StatusFetches > k)

\* ------------------------------------------------------------------ C6
\* C6: a path returned by run implies that the submission yielded a task id,
\* that the final polled status was SUCCEEDED with a video_url, and that the
\* download completed (the response was a success and every chunk of it was
\* written to the file at that path).
C6_PathImpliesSuccess ==
    (outcome.kind = "return" /\ outcome.value # None) =>
        /\ result # Unbound
        /\ ~LacksTaskId(result)
        /\ task_id = result["output"]["task_id"]
        /\ FinalHasArtifact
        /\ SpecState(final_result) = "Succeeded"
        /\ Downloads = 1
        /\ response # Unbound
        /\ response.ok
        /\ stream = <<>>
        /\ fileExists
        /\ fileContent = Concat(response.chunks)
        /\ outcome.value = OutputPath

\* C6 witness: run returned the path of a file of two chunks, three bytes
C6_Witness ==
    /\ pc = "done"
    /\ outcome = Return(OutputPath)
    /\ fileContent = <<"b1", "b2", "b3">>

\* ------------------------------------------------------------------ C7
\* the kind of failure a finished run met, "none" when it met none
FailureKind ==
    IF pc # "done" THEN "none"
    ELSE IF result # Unbound /\ LacksTaskId(result) THEN "RemoteRejection"
    ELSE IF WaitReturned /\ SpecState(final_result) = "Failed" THEN "Failed"
    ELSE IF WaitReturned /\ SpecState(final_result) = "Unrecognized" THEN "Unrecognized"
    ELSE IF response # Unbound /\ ~response.ok THEN "DownloadFailure"
    ELSE "none"

\* what run's caller can tell from the way the call ended: the type of an
\* exception, "path" for a returned path, and nothing for a bare None
CallerTag(o) ==
    IF o.kind = "raise" THEN o.value
    ELSE IF o.value = None THEN "untagged"
    ELSE "path"

\* C7: every failure of a run reaches run's caller as a tagged result that
\* identifies its kind: a rejected submission, a Failed job, an Unrecognized
\* status and a download failure never end in the bare, untagged None.
C7_FailuresAreTagged ==
    FailureKind \in {"RemoteRejection", "Failed", "Unrecognized", "DownloadFailure"}
        => CallerTag(outcome) # "untagged"

\* ------------------------------------------------------------------ C8
\* the payload that generate_video sent is the image-to-video one
PayloadI2V == "img_url" \in DOMAIN payload["input"] /\ payload["model"] = WAN_MODEL_I2V

\* C8: the payload sent is the image-to-video one iff an image reference was
\* passed to run, and the mode run derived equals the mode of that payload,
\* for every image reference including the empty string.
C8_ModeByPresence ==
    payload # Unbound =>
        /\ PayloadI2V <=> (image_input # None)
        /\ is_i2v <=> PayloadI2V

\* ------------------------------------------------------------------ C9
\* C9: with an empty prompt the run fails before any network call: no
\* submission, no status poll, no download, and the run ends in an error.
C9_EmptyPromptNoNetwork ==
    prompt = "" =>
        /\ requests = <<>>
        /\ pc = "done" => outcome.kind = "raise"

\* ----------------------------------------------------------------- C10
\* no credential is configured: WAN_API_KEY is unset or empty
NoCredential == API_KEY = None \/ API_KEY = ""

\* C10: with no credential configured, generate_video raises the
\* missing-key error before any request is sent, and the run makes no
\* submission call, no status poll and no download.
C10_NoCredentialNoNetwork ==
    NoCredential =>
        /\ requests = <<>>
        /\ payload = Unbound
        /\ pc \in {"run", "generate_video", "done"}
        /\ pc = "done" => outcome = Raise("ValueError")

\* C10 witness: the run ended in ValueError with an empty WAN_API_KEY
C10_Witness ==
    /\ API_KEY = ""
    /\ pc = "done"
    /\ outcome = Raise("ValueError")
    /\ requests = <<>>

\* ----------------------------------------------------------------- C11
\* a decoded status response with no output field, or an output without
\* task_status
Malformed(ex) ==
    /\ ex.kind = "json"
    /\ \/ "output" \notin DOMAIN ex.body
       \/ "task_status" \notin DOMAIN ex.body["output"]

\* C11: a malformed status payload fetched on tick k is Unrecognized and
\* stops the loop on that tick: no sleep and no further fetch follows, and
\* the loop returns that response.
C11_MalformedHalts ==
    \A k \in 1..StatusFetches :
        Malformed(script[k]) =>
            /\ StatusFetches = k
            /\ pc \notin {"sleep", "check_status"}
            /\ sleeps = k - 1
            /\ pc # "wait_for_completion" =>
                 /\ WaitReturned
                 /\ final_result = script[k].body
                 /\ SpecState(final_result) = "Unrecognized"
                 /\ Downloads = 0

\* C11 witness: a response without output, second of three scripted, returned
C11_Witness ==
    /\ Len(script) = 3
    /\ Malformed(script[2])
    /\ "output" \notin DOMAIN script[2].body
    /\ pc = "done"
    /\ StatusFetches = 2
    /\ final_result = script[2].body
    /\ outcome = Return(None)

\* ----------------------------------------------------------------- C12
\* the stage of a request: submission, polling, download
Stage(req) ==
    CASE req.op = "POST" -> 1
      [] req.op = "GET_STATUS" -> 2
      [] req.op = "GET_DOWNLOAD" -> 3

\* the requests made so far are in stage order: at most one submission,
\* before every status poll; every status poll before the download; at most
\* one download, made only after the polling loop has returned
RequestsOrdered ==
    /\ \A i, j \in 1..Len(requests) : i < j => Stage(requests[i]) <= Stage(requests[j])
    /\ Posts <= 1
    /\ Downloads <= 1
    /\ (StatusFetches > 0 \/ Downloads > 0) => (Posts = 1 /\ requests[1].op = "POST")
    /\ Downloads > 0 => (WaitReturned /\ StatusFetches >= 1)
    /\ pc \in {"check_status", "wait_for_completion", "sleep"} => Downloads = 0

OnlyNonTerminalFetched == \A i \in 1..StatusFetches : NonTerminalEx(script[i])

\* the script reaches a terminal response and no fetch before it fails
ReachesTerminal == \E k \in 1..Len(script) : FirstTerminalAt(k)

\* C13: the loop has no maximum tick count.  After any number N of fetches
\* that all answered PENDING or RUNNING the loop has not returned and the run
\* has not ended: it has slept after each classified answer and is
\* classifying, sleeping or about to fetch again.  And when the script
\* reaches a terminal response with no failed fetch before it, the run
\* eventually ends.
C13_NoTickLimit ==
    /\ []((task_id # None /\ OnlyNonTerminalFetched) =>
            /\ ~WaitReturned
            /\ pc \in {"check_status", "wait_for_completion", "sleep"}
            /\ outcome = Running
            /\ pc = "check_status" => sleeps = StatusFetches)
    /\ (ReachesTerminal ~> pc = "done")

\* C13 witness: three non-terminal answers fetched, the loop sleeping again
C13_Witness ==
    /\ StatusFetches = 3
    /\ OnlyNonTerminalFetched
    /\ pc = "check_status"
    /\ sleeps = 3
    /\ ~WaitReturned

\* ----------------------------------------------------------------- C14
\* C14: one sleep follows each tick that fetched PENDING or RUNNING and
\* precedes the next fetch, and none follows the tick that fetched a terminal
\* status: before a fetch the loop has slept once per fetch made, after a
\* fetch once less, it sleeps only on a non-terminal answer, and a loop that
\* returned after k ticks has slept k-1 times.
C14_OneSleepPerNonTerminalTick ==
    /\ (pc = "check_status" /\ outcome = Running) => sleeps = StatusFetches
    /\ pc = "wait_for_completion" => sleeps = StatusFetches - 1
    /\ pc = "sleep" =>
         /\ sleeps = StatusFetches - 1
         /\ NonTerminalEx(script[StatusFetches])
    /\ WaitReturned =>
         /\ sleeps = StatusFetches - 1
         /\ TerminalEx(script[StatusFetches])
         /\ \A i \in 1..(StatusFetches - 1) : NonTerminalEx(script[i])

\* C14 witness: the loop returned on its third tick after two sleeps
C14_Witness ==
    /\ pc = "run_download"
    /\ StatusFetches = 3
    /\ sleeps = 2

\* ----------------------------------------------------------------- C15
\* C15: when the artifact server answers with a non-success transport
\* status, download_video fails with HTTPError before the destination file
\* is opened: the file is neither created nor modified, nothing is streamed,
\* and run ends in that error, not in a path.
C15_FailedDownloadLeavesFile ==
    (response # Unbound /\ ~response.ok) =>
        /\ pc = "done"
        /\ outcome = Raise("HTTPError")
        /\ FileUntouched
        /\ stream = <<>>
        /\ Downloads = 1

\* C15 witness: a non-success answer, with a file already at the destination
C15_Witness ==
    /\ response # Unbound
    /\ ~response.ok
    /\ pc = "done"
    /\ fileExists
    /\ fileContent = OldContent

\* ----------------------------------------------------------------- C16
\* C16: once download_video has returned, the destination file holds exactly
\* the streamed chunks concatenated in order (whatever it held before), so as
\* many bytes as the payload; while writing, it holds the chunks read so
\* far; and an output directory that already exists never makes the call
\* fail.
C16_FileIsPayload ==
    /\ (outcome.kind = "return" /\ outcome.value # None) =>
         /\ fileExists
         /\ fileContent = Concat(response.chunks)
         /\ Len(fileContent) = Len(Concat(response.chunks))
         /\ outdir
    /\ pc = "download_write" =>
         fileContent \o Concat(stream) = Concat(response.chunks)
    /\ outcome # Raise("FileExistsError")

\* C16 witness: download_video returned after writing a payload of three
\* bytes that came in two chunks
C16_Witness ==
    /\ pc = "done"
    /\ outcome = Return(OutputPath)
    /\ response.chunks = <<<<"b1", "b2">>, <<"b3">>>>
    /\ fileContent = <<"b1", "b2", "b3">>

\* ----------------------------------------------------------------- C17
\* the task id of the submission response, None when it has none
SubmittedTaskId == Get(Get(result, "output", EmptyDict), "task_id", None)

\* the video_url of the final polled response, None when it has none
FinalVideoUrl == Get(Get(final_result, "output", EmptyDict), "video_url", None)

\* C17: the job handle is never mutated during a run: once set, task_id is
\* the task id of the submission response and keeps its value; every status
\* poll queries exactly that id; and the url of the download request is the
\* video_url of the final polled response.
C17_HandleNeverMutated ==
    /\ [](/\ task_id # None => (result # Unbound /\ task_id = SubmittedTaskId)
          /\ \A i \in 1..Len(requests) :
               /\ requests[i].op = "GET_STATUS" =>
                    (task_id # None /\ requests[i].target = SubmittedTaskId)
               /\ requests[i].op = "GET_DOWNLOAD" =>
                    (WaitReturned /\ requests[i].target = FinalVideoUrl
                     /\ video_url = FinalVideoUrl))
    /\ [][task_id # None => task_id' = task_id]_vars
    /\ [][result # Unbound => result' = result]_vars

\* C17 witness: three polls of task t2 and the download of the final url
C17_Witness ==
    /\ task_id = "t2"
    /\ StatusFetches = 3
    /\ requests[2] = Request("GET_STATUS", "t2")
    /\ requests[4] = Request("GET_STATUS", "t2")
    /\ Downloads = 1
    /\ requests[5] = Request("GET_DOWNLOAD", "https://cdn/v1.mp4")

====
